---- MODULE Spec2Model ----
(***************************************************************************)
(* A model of src/client.c: a single-shot TCP client                       *)
(*   client [-h] <ip address> <port> <command>                             *)
(* main() runs parse_arguments, handle_arguments, convert_address,         *)
(* socket_create, socket_connect, write_to_socket, read_from_socket and    *)
(* returns 0.  Every helper that detects an error calls exit() itself.     *)
(*                                                                         *)
(* C strings are sequences of one-character strings; a char pointer is a   *)
(* sequence of length 0 (NULL) or 1 (pointing at a C string).  System      *)
(* calls (socket, connect, send, write, recv, close) return what the       *)
(* environment chooses; the model draws each result with \E.               *)
(***************************************************************************)
EXTENDS Integers, Sequences, FiniteSets, TLC

VARIABLES
    argv,         \* argv[1..argc-1] (argv[0], the program name, is left out)
    pc,           \* the call of main() that runs next, or "exited"
    ip_address,   \* main's char *ip_address
    port_str,     \* main's char *port_str
    command,      \* main's char *command
    port,         \* main's in_port_t port: <<>> until handle_arguments sets it
    ss_family,    \* addr.ss_family
    sock,         \* the socket: "none", "open", "connected", "closed"
    wire,         \* the bytes the stream has accepted from the client, in order
    stdout_count, \* <<>> or <<n>>: the size_t count handed to write(STDOUT_FILENO, ..)
    ops,          \* the system and library calls made so far, in order
    ret,          \* the return value of each call in ops
    stderr,       \* the diagnostics printed, in order
    exit_status   \* <<>> while running, <<code>> once the process has exited

vars == <<argv, pc, ip_address, port_str, command, port, ss_family, sock, wire,
          stdout_count, ops, ret, stderr, exit_status>>

(***************************************************************************)
(* Program constants                                                       *)
(***************************************************************************)
EXIT_SUCCESS == 0
EXIT_FAILURE == 1
BASE_TEN == 10
LINE_LENGTH == 1024
UINT8_RANGE == 256
UINT16_MAX == 65535

NULL == <<>>
Ptr(s) == <<s>>
Deref(p) == p[1]

(***************************************************************************)
(* Bounds of the input space                                               *)
(***************************************************************************)
MaxFlags == 1      \* option-like tokens placed before the positional arguments
MaxPortLen == 2    \* length of the port strings enumerated over PortAlphabet

(***************************************************************************)
(* 64-bit unsigned values (uintmax_t, size_t) as four 16-bit limbs, least  *)
(* significant first, so that the width of the C types is kept.            *)
(***************************************************************************)
Limb == UINT16_MAX + 1

U64Zero == <<0, 0, 0, 0>>
U64Max == <<UINT16_MAX, UINT16_MAX, UINT16_MAX, UINT16_MAX>>

\* v * BASE_TEN + d, as [val |-> the low 64 bits, carry |-> what did not fit]
U64MulAdd(v, d) ==
    LET c1 == v[1] * BASE_TEN + d
        c2 == v[2] * BASE_TEN + (c1 \div Limb)
        c3 == v[3] * BASE_TEN + (c2 \div Limb)
        c4 == v[4] * BASE_TEN + (c3 \div Limb)
    IN  [val |-> <<c1 % Limb, c2 % Limb, c3 % Limb, c4 % Limb>>,
         carry |-> c4 \div Limb]

\* two's complement negation: (2^64 - v) mod 2^64
U64Neg(v) ==
    LET n1 == (Limb - 1 - v[1]) + 1
        n2 == (Limb - 1 - v[2]) + (n1 \div Limb)
        n3 == (Limb - 1 - v[3]) + (n2 \div Limb)
        n4 == (Limb - 1 - v[4]) + (n3 \div Limb)
    IN  <<n1 % Limb, n2 % Limb, n3 % Limb, n4 % Limb>>

\* the conversion of a signed value (ssize_t) to a 64-bit unsigned one
ToSizeT(n) ==
    LET q1 == n \div Limb
        q2 == q1 \div Limb
        q3 == q2 \div Limb
    IN  <<n % Limb, q1 % Limb, q2 % Limb, q3 % Limb>>

\* v > n for an n below 2^16
U64Greater(v, n) == v[2] # 0 \/ v[3] # 0 \/ v[4] # 0 \/ v[1] > n

(***************************************************************************)
(* strtoumax(port_str, &endptr, BASE_TEN)                                  *)
(***************************************************************************)
Digits == {"0", "1", "2", "3", "4", "5", "6", "7", "8", "9"}
DigitVal(c) ==
    CASE c = "0" -> 0 [] c = "1" -> 1 [] c = "2" -> 2 [] c = "3" -> 3
      [] c = "4" -> 4 [] c = "5" -> 5 [] c = "6" -> 6 [] c = "7" -> 7
      [] c = "8" -> 8 [] c = "9" -> 9
IsSpace(c) == c \in {" ", "\t", "\n"}

RECURSIVE SkipSpace(_, _)
SkipSpace(s, i) ==
    IF i <= Len(s) /\ IsSpace(s[i]) THEN SkipSpace(s, i + 1) ELSE i

\* the index after the run of digits that starts at i
RECURSIVE DigitsEnd(_, _)
DigitsEnd(s, i) ==
    IF i <= Len(s) /\ s[i] \in Digits THEN DigitsEnd(s, i + 1) ELSE i

\* the digits s[i..j-1] accumulated onto val; overflow once 64 bits are exceeded
RECURSIVE Accumulate(_, _, _, _, _)
Accumulate(s, i, j, val, overflow) ==
    IF i >= j THEN [val |-> val, overflow |-> overflow]
    ELSE LET r == U64MulAdd(val, DigitVal(s[i]))
         IN  IF r.carry = 0
             THEN Accumulate(s, i + 1, j, r.val, overflow)
             ELSE Accumulate(s, i + 1, j, r.val, TRUE)

\* [value, endptr (the index of the first character not consumed), erange,
\*  noconv (no digits were found: endptr is the start of the string)]
strtoumax(s) ==
    LET i0 == SkipSpace(s, 1)
        neg == i0 <= Len(s) /\ s[i0] = "-"
        i1 == IF i0 <= Len(s) /\ s[i0] \in {"+", "-"} THEN i0 + 1 ELSE i0
        i2 == DigitsEnd(s, i1)
        acc == Accumulate(s, i1, i2, U64Zero, FALSE)
    IN  IF i2 = i1
        THEN [value |-> U64Zero, endptr |-> 1, erange |-> FALSE, noconv |-> TRUE]
        ELSE IF acc.overflow
        THEN [value |-> U64Max, endptr |-> i2, erange |-> TRUE, noconv |-> FALSE]
        ELSE [value |-> IF neg THEN U64Neg(acc.val) ELSE acc.val,
              endptr |-> i2, erange |-> FALSE, noconv |-> FALSE]

\* errno after strtoumax: ERANGE on overflow; when nothing was converted the C
\* library may set EINVAL or leave errno at 0, so both are possible.
ErrnoChoices(r) ==
    IF r.erange THEN {"ERANGE"}
    ELSE IF r.noconv THEN {"0", "EINVAL"}
    ELSE {"0"}

(***************************************************************************)
(* parse_in_port_t: the outcome for one port string and one errno          *)
(***************************************************************************)
parse_in_port_t(s, errno) ==
    LET r == strtoumax(s)
    IN  IF errno # "0"
        THEN [ok |-> FALSE, usage |-> FALSE, msg |-> "Error parsing in_port_t.", value |-> 0]
        ELSE IF r.endptr <= Len(s)
        THEN [ok |-> FALSE, usage |-> TRUE, msg |-> "Invalid characters in input.", value |-> 0]
        ELSE IF U64Greater(r.value, UINT16_MAX)
        THEN [ok |-> FALSE, usage |-> TRUE, msg |-> "in_port_t value out of range.", value |-> 0]
        ELSE [ok |-> TRUE, usage |-> FALSE, msg |-> "", value |-> r.value[1]]

(***************************************************************************)
(* inet_pton(AF_INET, ..) and inet_pton(AF_INET6, ..): 1 when the text is  *)
(* a literal of that family, 0 otherwise.                                  *)
(***************************************************************************)
HexDigits == Digits \cup {"a", "b", "c", "d", "e", "f", "A", "B", "C", "D", "E", "F"}

\* the parts of s between the occurrences of sep
RECURSIVE SplitFrom(_, _, _, _, _)
SplitFrom(s, sep, i, cur, acc) ==
    IF i > Len(s) THEN Append(acc, cur)
    ELSE IF s[i] = sep THEN SplitFrom(s, sep, i + 1, <<>>, Append(acc, cur))
    ELSE SplitFrom(s, sep, i + 1, Append(cur, s[i]), acc)
Split(s, sep) == SplitFrom(s, sep, 1, <<>>, <<>>)

\* a decimal octet: 1 to 3 digits, no leading zero, at most 255
IsOctet(part) ==
    /\ Len(part) \in 1..3
    /\ \A i \in 1..Len(part) : part[i] \in Digits
    /\ (Len(part) > 1 => part[1] # "0")
    /\ (Len(part) = 3 =>
          DigitVal(part[1]) * 100 + DigitVal(part[2]) * 10 + DigitVal(part[3])
              < UINT8_RANGE)

inet_pton4(s) ==
    LET parts == Split(s, ".")
    IN  IF Len(parts) = 4 /\ \A i \in 1..4 : IsOctet(parts[i]) THEN 1 ELSE 0

IsHexGroup(part) ==
    /\ Len(part) \in 1..4
    /\ \A i \in 1..Len(part) : part[i] \in HexDigits

inet_pton6(s) ==
    LET parts == Split(s, ":")
        n == Len(parts)
        \* a dotted-quad tail stands for the last two 16-bit groups
        tail4 == n >= 2 /\ inet_pton4(parts[n]) = 1
        empties == {i \in 2..(n - 1) : parts[i] = <<>>}
        filled == {i \in 1..n : parts[i] # <<>>}
        groups == Cardinality(filled) + (IF tail4 THEN 1 ELSE 0)
    IN  IF /\ n >= 3
           /\ Cardinality(empties) <= 1
           /\ (parts[1] = <<>> => parts[2] = <<>>)
           /\ (parts[n] = <<>> => parts[n - 1] = <<>>)
           /\ \A i \in filled : IsHexGroup(parts[i]) \/ (i = n /\ tail4)
           /\ IF empties = {} THEN groups = 8 ELSE groups <= 7
        THEN 1 ELSE 0

inet_pton(af, s) == IF af = "AF_INET" THEN inet_pton4(s) ELSE inet_pton6(s)

(***************************************************************************)
(* getopt(argc, argv, "h:") with opterr = 0, as the GNU C library does it: *)
(* arguments that are not options are skipped (and permuted to the end), a *)
(* "--" ends the options, "h" takes an argument.                           *)
(***************************************************************************)
DashDash == <<"-", "-">>
IsOption(tok) == Len(tok) >= 2 /\ tok[1] = "-" /\ tok # DashDash

\* the first element of av at or after i that is an option or "--"; 0 if none
RECURSIVE FirstSpecial(_, _)
FirstSpecial(av, i) ==
    IF i > Len(av) THEN 0
    ELSE IF IsOption(av[i]) \/ av[i] = DashDash THEN i
    ELSE FirstSpecial(av, i + 1)

\* the first call of getopt: [opt, optopt, optind, argv (as permuted)]
getopt(av) ==
    LET k == FirstSpecial(av, 1)
    IN  IF k = 0
        THEN [opt |-> "-1", optopt |-> "", optind |-> 1, argv |-> av]
        ELSE IF av[k] = DashDash
        THEN [opt |-> "-1", optopt |-> "", optind |-> 2,
              argv |-> <<DashDash>> \o SubSeq(av, 1, k - 1) \o SubSeq(av, k + 1, Len(av))]
        ELSE IF av[k][2] # "h"
        THEN [opt |-> "?", optopt |-> av[k][2], optind |-> k, argv |-> av]
        ELSE IF Len(av[k]) > 2 \/ k < Len(av)
        THEN [opt |-> "h", optopt |-> "", optind |-> k, argv |-> av]
        ELSE [opt |-> "?", optopt |-> "h", optind |-> k, argv |-> av]

\* argv[i] in C's indexing (argv[0] is the program name, argv[argc] is NULL)
ArgvAt(av, i) == IF i >= 1 /\ i <= Len(av) THEN Ptr(av[i]) ELSE NULL

(***************************************************************************)
(* The inputs: the command lines the program is started with               *)
(***************************************************************************)
Addresses == {
    <<"1", "2", "7", ".", "0", ".", "0", ".", "1">>,
    <<":", ":", "1">>,
    <<"f", "e", "8", "0", ":", ":", "1", ".", "2", ".", "3", ".", "4">>,
    <<"n", "o", "t", "-", "a", "n", "-", "i", "p">>,
    <<"2", "5", "6", ".", "0", ".", "0", ".", "1">>,
    <<"1", ".", "2", ".", "3">> }

PortAlphabet == {"0", "7", "+", "-", " ", "a"}

PortStrings ==
    UNION {[1..n -> PortAlphabet] : n \in 0..MaxPortLen}
    \cup { <<"9", "0", "0", "0">>,
           <<"6", "5", "5", "3", "5">>,
           <<"6", "5", "5", "3", "6">>,
           <<"7", "0", "0", "0", "0">>,
           <<"1", "8", "4", "4", "6", "7", "4", "4", "0", "7", "3", "7", "0", "9", "5", "5", "1", "6", "1", "5">>,
           <<"1", "8", "4", "4", "6", "7", "4", "4", "0", "7", "3", "7", "0", "9", "5", "5", "1", "6", "1", "6">> }

CommandText == <<"P", "I", "N", "G">>
CommandOfLen(n) == [i \in 1..n |-> CommandText[((i - 1) % Len(CommandText)) + 1]]
CommandLens == {0, 1, 4, 255, 256, 300}
Commands == {CommandOfLen(n) : n \in CommandLens}

\* the value of a command character as a byte on the stream
Ord(c) == CASE c = "P" -> 80 [] c = "I" -> 73 [] c = "N" -> 78 [] c = "G" -> 71
Bytes(s) == [i \in 1..Len(s) |-> Ord(s[i])]

FlagTokens == { <<"-", "h">>, <<"-", "x">>, DashDash, <<"-", "h", "v">> }
FlagSeqs(n) == UNION {[1..k -> FlagTokens] : k \in 0..n}
Positionals == << <<"1", "2", "7", ".", "0", ".", "0", ".", "1">>, <<"9", "0", "0", "0">>, <<"P", "I", "N", "G">>, <<"e", "x", "t", "r", "a">> >>

ArgVectors ==
    {<<a, p, c>> : a \in Addresses, p \in PortStrings, c \in Commands}
    \cup {pre \o SubSeq(Positionals, 1, n) \o suf :
              pre \in FlagSeqs(MaxFlags), n \in 0..Len(Positionals), suf \in FlagSeqs(1)}

(***************************************************************************)
(* The state after the declarations of main(), lines 50-59                 *)
(***************************************************************************)
Init ==
    /\ argv \in ArgVectors
    /\ pc = "parse_arguments"
    /\ ip_address = NULL
    /\ port_str = NULL
    /\ command = NULL
    /\ port = <<>>
    /\ ss_family = "uninitialized"
    /\ sock = "none"
    /\ wire = <<>>
    /\ stdout_count = <<>>
    /\ ops = <<>>
    /\ ret = <<>>
    /\ stderr = <<>>
    /\ exit_status = <<>>

\* exit(code) after printing the diagnostics msgs
Exit(code, msgs) ==
    /\ pc' = "exited"
    /\ exit_status' = <<code>>
    /\ stderr' = stderr \o msgs

\* what usage(program_name, exit_code, message) prints: the message, if any, and
\* the usage text
UsageText(message) == message \o << <<"Usage", "">> >>

(***************************************************************************)
(* parse_arguments, lines 76-119                                           *)
(***************************************************************************)
parse_arguments ==
    /\ pc = "parse_arguments"
    /\ LET g == getopt(argv)
           argc == Len(argv) + 1
       IN  IF g.opt = "h"
           THEN /\ Exit(EXIT_SUCCESS, UsageText(<<>>))
                /\ UNCHANGED <<argv, ip_address, port_str, command>>
           ELSE IF g.opt = "?"
           THEN /\ Exit(EXIT_FAILURE, UsageText(<< <<"Unknown option", g.optopt>> >>))
                /\ UNCHANGED <<argv, ip_address, port_str, command>>
           ELSE IF argc < 4
           THEN /\ Exit(EXIT_FAILURE, UsageText(<< <<"Error: Too few arguments.", "">> >>))
                /\ argv' = g.argv
                /\ UNCHANGED <<ip_address, port_str, command>>
           ELSE IF argc > 4
           THEN /\ Exit(EXIT_FAILURE, UsageText(<< <<"Error: Too many arguments.", "">> >>))
                /\ argv' = g.argv
                /\ UNCHANGED <<ip_address, port_str, command>>
           ELSE /\ argv' = g.argv
                /\ ip_address' = ArgvAt(g.argv, g.optind)
                /\ port_str' = ArgvAt(g.argv, g.optind + 1)
                /\ command' = ArgvAt(g.argv, g.optind + 2)
                /\ pc' = "handle_arguments"
                /\ UNCHANGED <<stderr, exit_status>>
    /\ UNCHANGED <<port, ss_family, sock, wire, stdout_count, ops, ret>>

(***************************************************************************)
(* handle_arguments, lines 121-139, with its call of parse_in_port_t       *)
(***************************************************************************)
handle_arguments ==
    /\ pc = "handle_arguments"
    /\ IF ip_address = NULL
       THEN /\ Exit(EXIT_FAILURE, UsageText(<< <<"The ip address is required.", "">> >>))
            /\ UNCHANGED port
       ELSE IF port_str = NULL
       THEN /\ Exit(EXIT_FAILURE, UsageText(<< <<"The port is required.", "">> >>))
            /\ UNCHANGED port
       ELSE IF command = NULL
       THEN /\ Exit(EXIT_FAILURE, UsageText(<< <<"The command is required.", "">> >>))
            /\ UNCHANGED port
       ELSE \E errno \in ErrnoChoices(strtoumax(Deref(port_str))) :
                LET r == parse_in_port_t(Deref(port_str), errno)
                IN  IF r.ok
                    THEN /\ port' = <<r.value>>
                         /\ pc' = "convert_address"
                         /\ UNCHANGED <<stderr, exit_status>>
                    ELSE /\ Exit(EXIT_FAILURE,
                                 IF r.usage THEN UsageText(<< <<r.msg, "">> >>)
                                 ELSE << <<"perror", r.msg>> >>)
                         /\ UNCHANGED port
    /\ UNCHANGED <<argv, ip_address, port_str, command, ss_family, sock, wire,
                   stdout_count, ops, ret>>

(***************************************************************************)
(* convert_address, lines 193-214                                          *)
(***************************************************************************)
\* convert_address without the exit() of its last branch: the diagnostic is
\* printed and main() goes on
convert_address_continues ==
    /\ pc = "convert_address"
    /\ IF inet_pton("AF_INET", Deref(ip_address)) = 1
       THEN /\ ss_family' = "AF_INET"
            /\ ops' = ops \o <<"inet_pton(AF_INET)">>
            /\ UNCHANGED stderr
       ELSE IF inet_pton("AF_INET6", Deref(ip_address)) = 1
       THEN /\ ss_family' = "AF_INET6"
            /\ ops' = ops \o <<"inet_pton(AF_INET)", "inet_pton(AF_INET6)">>
            /\ UNCHANGED stderr
       ELSE /\ ss_family' = "AF_UNSPEC"
            /\ ops' = ops \o <<"inet_pton(AF_INET)", "inet_pton(AF_INET6)">>
            /\ stderr' = stderr \o << <<"is not an IPv4 or IPv6 address", "">> >>
    /\ pc' = "socket_create"
    /\ UNCHANGED <<argv, ip_address, port_str, command, port, sock, wire,
                   stdout_count, ret, exit_status>>

convert_address ==
    /\ pc = "convert_address"
    /\ IF inet_pton("AF_INET", Deref(ip_address)) = 1
       THEN /\ ss_family' = "AF_INET"
            /\ ops' = ops \o <<"inet_pton(AF_INET)">>
            /\ pc' = "socket_create"
            /\ UNCHANGED <<stderr, exit_status>>
       ELSE IF inet_pton("AF_INET6", Deref(ip_address)) = 1
       THEN /\ ss_family' = "AF_INET6"
            /\ ops' = ops \o <<"inet_pton(AF_INET)", "inet_pton(AF_INET6)">>
            /\ pc' = "socket_create"
            /\ UNCHANGED <<stderr, exit_status>>
       ELSE /\ ss_family' = "AF_UNSPEC"
            /\ ops' = ops \o <<"inet_pton(AF_INET)", "inet_pton(AF_INET6)">>
            /\ Exit(EXIT_FAILURE, << <<"is not an IPv4 or IPv6 address", "">> >>)
    /\ UNCHANGED <<argv, ip_address, port_str, command, port, sock, wire,
                   stdout_count, ret>>

(***************************************************************************)
(* socket_create, lines 223-236                                            *)
(***************************************************************************)
SocketResults == {-1, 3}

socket_create ==
    /\ pc = "socket_create"
    /\ \E sockfd \in SocketResults :
        /\ ops' = Append(ops, "socket")
        /\ ret' = ret @@ ("socket" :> sockfd)
        /\ IF sockfd = -1
           THEN /\ Exit(EXIT_FAILURE, << <<"Socket creation failed", "">> >>)
                /\ UNCHANGED sock
           ELSE /\ sock' = "open"
                /\ pc' = "socket_connect"
                /\ UNCHANGED <<stderr, exit_status>>
    /\ UNCHANGED <<argv, ip_address, port_str, command, port, ss_family, wire,
                   stdout_count>>

(***************************************************************************)
(* socket_connect, lines 244-291                                           *)
(***************************************************************************)
\* inet_ntop into a buffer of INET6_ADDRSTRLEN bytes fails only for a family
\* it does not know
inet_ntop_fails(family) == family \notin {"AF_INET", "AF_INET6"}

ConnectResults == {0, -1}

socket_connect ==
    /\ pc = "socket_connect"
    /\ IF inet_ntop_fails(ss_family)
       THEN /\ ops' = Append(ops, "inet_ntop")
            /\ Exit(EXIT_FAILURE, << <<"perror", "inet_ntop">> >>)
            /\ UNCHANGED <<sock, ret>>
       ELSE IF ss_family \notin {"AF_INET", "AF_INET6"}
       THEN /\ ops' = Append(ops, "inet_ntop")
            /\ Exit(EXIT_FAILURE, << <<"Internal error: addr->ss_family", "">> >>)
            /\ UNCHANGED <<sock, ret>>
       ELSE \E r \in ConnectResults :
            /\ ops' = ops \o <<"inet_ntop", "connect">>
            /\ ret' = ret @@ ("connect" :> r)
            /\ IF r = -1
               THEN /\ Exit(EXIT_FAILURE, << <<"perror", "connect">> >>)
                    /\ UNCHANGED sock
               ELSE /\ sock' = "connected"
                    /\ pc' = "write_to_socket"
                    /\ UNCHANGED <<stderr, exit_status>>
    /\ UNCHANGED <<argv, ip_address, port_str, command, port, ss_family, wire,
                   stdout_count>>

(***************************************************************************)
(* write_to_socket, lines 311-321                                          *)
(***************************************************************************)
\* (uint8_t)command_len
NarrowToUint8(n) == n % UINT8_RANGE

\* send() of one byte: -1, or the byte was taken
SendResults == {-1, 1}

\* write() of n bytes: -1, all n of them, or fewer
WriteResults(n) == {-1, n} \cup {k \in {n \div 2} : 0 < k /\ k < n}

\* what the stream has taken of buf when the call returned r
Accepted(buf, r) == IF r > 0 THEN SubSeq(buf, 1, r) ELSE <<>>

write_to_socket ==
    /\ pc = "write_to_socket"
    /\ LET command_len == Len(Deref(command))
           size == NarrowToUint8(command_len)
       IN  \E s \in SendResults, w \in WriteResults(command_len) :
            /\ ops' = ops \o <<"send", "write">>
            /\ ret' = ret @@ ("send" :> s) @@ ("write" :> w)
            /\ wire' = wire \o Accepted(<<size>>, s) \o Accepted(Bytes(Deref(command)), w)
    /\ pc' = "read_from_socket"
    /\ UNCHANGED <<argv, ip_address, port_str, command, port, ss_family, sock,
                   stdout_count, stderr, exit_status>>

(***************************************************************************)
(* read_from_socket, lines 323-333, with its call of socket_close          *)
(* (lines 297-304)                                                         *)
(***************************************************************************)
\* recv() into buffer[LINE_LENGTH]: -1, 0 (the peer closed), or a byte count
RecvResults == {-1, 0, 1, 4, LINE_LENGTH}

CloseResults == {0, -1}

\* read_from_socket that takes a recv() result of 0 or less for an error and
\* exits before writing the reply and closing
read_from_socket_zero_is_error ==
    /\ pc = "read_from_socket"
    /\ \E bytes_read \in RecvResults, c \in CloseResults :
        IF bytes_read <= 0
        THEN /\ ops' = Append(ops, "recv")
             /\ ret' = ret @@ ("recv" :> bytes_read)
             /\ Exit(EXIT_FAILURE, << <<"perror", "recv">> >>)
             /\ UNCHANGED <<stdout_count, sock>>
        ELSE /\ ops' = ops \o <<"recv", "write(STDOUT_FILENO)", "close">>
             /\ ret' = ret @@ ("recv" :> bytes_read) @@ ("close" :> c)
             /\ stdout_count' = <<ToSizeT(bytes_read)>>
             /\ IF c = -1
                THEN /\ sock' = "close_failed"
                     /\ Exit(EXIT_FAILURE, << <<"perror", "error closing socket">> >>)
                ELSE /\ sock' = "closed"
                     /\ pc' = "return"
                     /\ UNCHANGED <<stderr, exit_status>>
    /\ UNCHANGED <<argv, ip_address, port_str, command, port, ss_family, wire>>

read_from_socket ==
    /\ pc = "read_from_socket"
    /\ \E bytes_read \in RecvResults, c \in CloseResults :
        /\ ops' = ops \o <<"recv", "write(STDOUT_FILENO)", "close">>
        /\ ret' = ret @@ ("recv" :> bytes_read) @@ ("close" :> c)
        /\ stdout_count' = <<ToSizeT(bytes_read)>>
        /\ IF c = -1
           THEN /\ sock' = "close_failed"
                /\ Exit(EXIT_FAILURE, << <<"perror", "error closing socket">> >>)
           ELSE /\ sock' = "closed"
                /\ pc' = "return"
                /\ UNCHANGED <<stderr, exit_status>>
    /\ UNCHANGED <<argv, ip_address, port_str, command, port, ss_family, wire>>

(***************************************************************************)
(* main's return 0, line 70                                                *)
(***************************************************************************)
main_return ==
    /\ pc = "return"
    /\ pc' = "exited"
    /\ exit_status' = <<EXIT_SUCCESS>>
    /\ UNCHANGED <<argv, ip_address, port_str, command, port, ss_family, sock, wire,
                   stdout_count, ops, ret, stderr>>

Next ==
    \/ parse_arguments
    \/ handle_arguments
    \/ convert_address
    \/ socket_create
    \/ socket_connect
    \/ write_to_socket
    \/ read_from_socket
    \/ main_return

Spec == Init /\ [][Next]_vars

(***************************************************************************)
(* Vocabulary of the properties                                            *)
(***************************************************************************)
Exited == pc = "exited"
Called(op) == \E i \in 1..Len(ops) : ops[i] = op
Count(op) == Cardinality({i \in 1..Len(ops) : ops[i] = op})
Failed(op) == Called(op) /\ ret[op] = -1
ExitedWith(code) == Exited /\ exit_status = <<code>>
CommandLen == Len(Deref(command))

\* the calls of ops that are among steps, in the order they were made
RECURSIVE Only(_, _)
Only(s, steps) ==
    IF s = <<>> THEN <<>>
    ELSE IF Head(s) \in steps THEN <<Head(s)>> \o Only(Tail(s), steps)
    ELSE Only(Tail(s), steps)

IsPrefix(s, t) == Len(s) <= Len(t) /\ s = SubSeq(t, 1, Len(s))

\* C1: once socket_create has succeeded, every way the process terminates has
\* closed the socket first: no exited state has a socket that was created and
\* never closed.
C1_SocketClosedOnEveryExit ==
    (Exited /\ sock # "none") => Called("close")

\* C2: the process exits 0 only if every stage succeeded; a stage that fails
\* ends the process with a non-zero status and no later stage runs.
C2_ExitZeroOnlyIfEveryStageSucceeded ==
    /\ ExitedWith(EXIT_SUCCESS) => \A op \in DOMAIN ret : ret[op] # -1
    /\ \A i \in 1..Len(ops) : (ops[i] \in DOMAIN ret /\ ret[ops[i]] = -1) =>
           \A j \in (i + 1)..Len(ops) : ops[j] = "close"
    /\ \A op \in DOMAIN ret : (ret[op] = -1 /\ Exited) => exit_status # <<EXIT_SUCCESS>>

\* C3: for a command of length L in 0..255, once write_to_socket has returned
\* the stream holds exactly 1 + L bytes: the byte L, then the L command bytes
\* unchanged and in order (for L = 0 the single byte 0).
C3_WireIsLengthThenPayload ==
    (Called("write") /\ CommandLen < UINT8_RANGE) =>
        wire = <<CommandLen>> \o Bytes(Deref(command))

NetworkSteps ==
    <<"socket", "connect", "send", "write", "recv", "write(STDOUT_FILENO)", "close">>
StepSet == {NetworkSteps[i] : i \in 1..Len(NetworkSteps)}

\* C4: the network operations occur in the fixed order resolve, create
\* socket, connect, send length byte, send payload, receive, write reply,
\* close, exit 0, each at most once; no step happens before its predecessor
\* has succeeded, and at most one socket is created.
C4_FixedOrderEachStepAfterSuccess ==
    /\ IsPrefix(Only(ops, StepSet), NetworkSteps)
    /\ Count("socket") <= 1
    /\ Called("socket") => ops[1] = "inet_pton(AF_INET)" /\ ss_family \in {"AF_INET", "AF_INET6"}
    /\ Called("connect") => ret["socket"] # -1
    /\ Called("send") => ret["connect"] = 0
    /\ Called("write") => ret["send"] = 1
    /\ Called("recv") => ret["write"] = CommandLen
    /\ Called("write(STDOUT_FILENO)") => ret["recv"] >= 0
    /\ (ExitedWith(EXIT_SUCCESS) /\ ops # <<>>) => ops[Len(ops)] = "close" /\ ret["close"] = 0

\* C5 as stated: the client performs exactly one receive; when it returns 0
\* bytes the client writes zero reply bytes to standard output, closes the
\* socket and exits with status 0.
C5_ZeroByteReplyExitsZero_Original ==
    /\ Count("recv") <= 1
    /\ (Called("recv") /\ ret["recv"] = 0) =>
          /\ stdout_count = <<U64Zero>>
          /\ Count("close") = 1
          /\ pc \in {"return", "exited"}
          /\ Exited => exit_status = <<EXIT_SUCCESS>>

\* C5 as amended: the client performs exactly one receive; when it returns 0
\* bytes the client writes zero reply bytes to standard output, calls close
\* once, and exits with status 0 if close succeeded and with EXIT_FAILURE if
\* close failed.
C5_ZeroByteReplyExitsZeroUnlessCloseFails ==
    /\ Count("recv") <= 1
    /\ (Called("recv") /\ ret["recv"] = 0) =>
          /\ stdout_count = <<U64Zero>>
          /\ Count("close") = 1
          /\ pc \in {"return", "exited"}
          /\ Exited => exit_status =
                 <<IF ret["close"] = 0 THEN EXIT_SUCCESS ELSE EXIT_FAILURE>>

\* C5 witness: the peer closed without sending, and the client has exited 0.
C5_Witness ==
    /\ ExitedWith(EXIT_SUCCESS)
    /\ Called("recv") /\ ret["recv"] = 0
    /\ stdout_count = <<U64Zero>>
    /\ sock = "closed"

PtonCalls == Only(ops, {"inet_pton(AF_INET)", "inet_pton(AF_INET6)"})
IsLiteral(s) == inet_pton4(s) = 1 \/ inet_pton6(s) = 1

\* C6: when the address text is neither an IPv4 nor an IPv6 literal the
\* process terminates with a non-zero status and no socket is ever created
\* (a socket is created only after the address was resolved); IPv4 parsing is
\* attempted first, IPv6 only if IPv4 failed.
C6_InvalidAddressNeverCreatesSocket ==
    /\ (ip_address # NULL /\ ~IsLiteral(Deref(ip_address))) =>
          /\ ~Called("socket") /\ sock = "none"
          /\ Exited => exit_status # <<EXIT_SUCCESS>>
          /\ PtonCalls # <<>> =>
                /\ PtonCalls = <<"inet_pton(AF_INET)", "inet_pton(AF_INET6)">>
                /\ ExitedWith(EXIT_FAILURE)
    /\ Called("socket") =>
          /\ IsPrefix(PtonCalls \o <<"socket">>, ops)
          /\ ss_family = (IF inet_pton4(Deref(ip_address)) = 1 THEN "AF_INET" ELSE "AF_INET6")
    /\ PtonCalls \in {<<>>, <<"inet_pton(AF_INET)">>,
                      <<"inet_pton(AF_INET)", "inet_pton(AF_INET6)">>}
    /\ Called("inet_pton(AF_INET6)") => inet_pton4(Deref(ip_address)) = 0

\* C6 witness: both parses of the address text failed and the process has
\* exited with a failure status without a socket.
C6_Witness ==
    /\ ExitedWith(EXIT_FAILURE)
    /\ PtonCalls = <<"inet_pton(AF_INET)", "inet_pton(AF_INET6)">>
    /\ ~IsLiteral(Deref(ip_address))
    /\ sock = "none"

IsDecimalText(s) == Len(s) >= 1 /\ \A i \in 1..Len(s) : s[i] \in Digits

RECURSIVE StripZeros(_)
StripZeros(s) == IF Len(s) > 1 /\ Head(s) = "0" THEN StripZeros(Tail(s)) ELSE s

RECURSIVE DecimalValue(_)
DecimalValue(s) ==
    IF s = <<>> THEN 0
    ELSE DecimalValue(SubSeq(s, 1, Len(s) - 1)) * BASE_TEN + DigitVal(s[Len(s)])

\* decimal text that denotes a value in 0..65535
IsPortText(s) ==
    /\ IsDecimalText(s)
    /\ Len(StripZeros(s)) <= 5
    /\ DecimalValue(StripZeros(s)) <= UINT16_MAX

PortValidated ==
    /\ pc \notin {"parse_arguments", "handle_arguments"}
    /\ ip_address # NULL /\ port_str # NULL /\ command # NULL

\* C7: port validation accepts a port string exactly when it is decimal text
\* for a value p in 0..65535, and returns p; any other string (a sign, leading
\* white space, the empty string, a value out of range) is rejected with a
\* usage error and a non-zero exit before any network activity.
C7_PortAcceptedIffDecimalInRange ==
    PortValidated =>
        IF IsPortText(Deref(port_str))
        THEN port = <<DecimalValue(StripZeros(Deref(port_str)))>>
        ELSE /\ port = <<>>
             /\ ExitedWith(EXIT_FAILURE)
             /\ stderr[Len(stderr)] = <<"Usage", "">>
             /\ ops = <<>>

HelpFlag == <<"-", "h">>
FirstFlag == FirstSpecial(argv, 1)

\* C8: with the -h flag (with or without further arguments) the program
\* prints the usage text and exits 0; an unknown flag prints
\* "Unknown option '-<c>'." plus usage and exits non-zero; -h is never
\* reported as an unknown option.
C8_HelpExitsZeroUnknownFlagFails ==
    /\ (pc # "parse_arguments" /\ FirstFlag # 0 /\ argv[FirstFlag] = HelpFlag) =>
          /\ ExitedWith(EXIT_SUCCESS)
          /\ stderr = UsageText(<<>>)
    /\ (pc # "parse_arguments" /\ FirstFlag # 0 /\ IsOption(argv[FirstFlag])
            /\ argv[FirstFlag][2] # "h") =>
          /\ ExitedWith(EXIT_FAILURE)
          /\ stderr = UsageText(<< <<"Unknown option", argv[FirstFlag][2]>> >>)
    /\ \A i \in 1..Len(stderr) : stderr[i] # <<"Unknown option", "h">>

\* C9: a command of length L > 255 is not rejected: the length byte on the
\* stream is L mod 256 and all L payload bytes follow it, so the length field
\* and the number of payload bytes sent disagree.
C9_LongCommandLengthByteIsTruncated ==
    (command # NULL /\ CommandLen >= UINT8_RANGE /\ Called("write")) =>
        /\ wire = <<CommandLen % UINT8_RANGE>> \o Bytes(Deref(command))
        /\ wire[1] # Len(wire) - 1

\* C10: the number of bytes the client asks write() to put on standard output
\* equals the non-negative count the single recv returned and never exceeds
\* the buffer's LINE_LENGTH bytes, also when recv failed with -1.
C10_StdoutCountWithinBuffer ==
    stdout_count # <<>> =>
        /\ ~U64Greater(stdout_count[1], LINE_LENGTH)
        /\ ret["recv"] >= 0 => stdout_count[1] = <<ret["recv"], 0, 0, 0>>

====
